---- MODULE Spec2Model ----
(***************************************************************************)
(* Tool-chaining orchestration core of jhutils.agent: the Toolset (mode,   *)
(* available and selected tools), the chain output schema built from it,   *)
(* and AssistantAgent.run, the bounded loop that asks the reasoning engine *)
(* for a chain output, executes the called tool and narrows the selection. *)
(*                                                                         *)
(* Python values are modelled as follows.  A str is a TLA+ string, None is *)
(* the string NoneVal, a list is a sequence.  A tool class is a record     *)
(* holding its __qualname__ and the names of its input and output schema   *)
(* classes.  An instance of a pydantic schema class is a record whose      *)
(* field `schema` names its class and whose other fields are the model's   *)
(* fields; a schema class itself is the record [class |-> name].           *)
(***************************************************************************)
EXTENDS Integers, Sequences, FiniteSets, TLC

VARIABLES
    mode,             \* Toolset._mode
    available_tools,  \* Toolset._available_tools
    selected_tools,   \* Toolset._selected_tools
    system_prompt,    \* Toolset._system_prompt (the mode it was read for)
    pc,               \* position of AssistantAgent.run
    query,            \* run: local `query`
    max_chain,        \* run: parameter `max_chain`
    chain_i,          \* run: number of completed passes of the for loop
    result_text,      \* run: local `result_text`
    response,         \* run: local `response` (the chain output)
    tool_response,    \* run: local `tool_response`
    returned,         \* run: the value returned
    error,            \* run: the exception raised
    llm_calls,        \* run: reasoning-engine calls made (self.agent.run)
    tool_execs,       \* run: tool executions started (called_tool.run)
    run_effects,      \* run: the writes its tools have made to Obsidian and
                      \* Mealie, in order
    history,          \* run: local `history`
    agent_history,    \* AssistantAgent.agent.history (NoHistory while
                      \* AssistantAgent.agent is None)
    last_op,          \* the last operation a caller invoked, and its outcome
    kwargs,           \* Toolset._kwargs: the collaborators given at construction
    peer              \* a second Toolset and AssistantAgent of the process, its
                      \* attributes and the locals of its run (NoPeer: none)

toolset_vars == <<mode, available_tools, selected_tools, system_prompt>>

run_vars == <<pc, query, max_chain, chain_i, result_text, response,
              tool_response, returned, error, llm_calls, tool_execs,
              run_effects, history>>

vars == <<mode, available_tools, selected_tools, system_prompt, pc, query,
          max_chain, chain_i, result_text, response, tool_response, returned,
          error, llm_calls, tool_execs, run_effects, history, agent_history,
          last_op, kwargs, peer>>

----------------------------------------------------------------------------
(* Bounds of the model *)

\* largest max_chain a caller passes explicitly
MaxChainArg == 2

\* longest tasks / items list in a tool input
MaxListLen == 1

\* longest list a caller assigns to selected_tools
MaxSelLen == 2

----------------------------------------------------------------------------
(* Python helpers *)

NoneVal == "<None>"

Range(s) == {s[i] : i \in DOMAIN s}

SeqsUpTo(S, n) == UNION {[1..k -> S] : k \in 0..n}

Min(S) == CHOOSE x \in S : \A y \in S : x <= y

\* sep.join(parts)
RECURSIVE Join(_, _)
Join(parts, sep) ==
    IF parts = <<>> THEN ""
    ELSE IF Len(parts) = 1 THEN parts[1]
    ELSE parts[1] \o sep \o Join(Tail(parts), sep)

----------------------------------------------------------------------------
(* The static catalog: tools and modes *)

AddTasksTool ==
    [qualname |-> "AddTasksTool",
     input_schema |-> "AddTasksInputSchema",
     output_schema |-> "AddTasksOutputSchema"]

AddShoppingItemsTool ==
    [qualname |-> "AddShoppingItemsTool",
     input_schema |-> "AddShoppingItemsInputSchema",
     output_schema |-> "AddShoppingItemsOutputSchema"]

ReadRecipeTool ==
    [qualname |-> "ReadRecipeTool",
     input_schema |-> "ReadRecipeInputSchema",
     output_schema |-> "ReadRecipeOutputSchema"]

RespondTool ==
    [qualname |-> "RespondTool",
     input_schema |-> "RespondInputSchema",
     output_schema |-> "RespondOutputSchema"]

TOOLS == <<AddTasksTool, AddShoppingItemsTool, ReadRecipeTool, RespondTool>>

TOOL_NAMES == [i \in DOMAIN TOOLS |-> TOOLS[i].qualname]

ModeNames ==
    {"general", "shopping", "cooking", "review", "theology", "testing"}

\* the mode table; a name outside its DOMAIN is what .get(mode, None) answers
\* None for
AVAILABLE_MODES ==
    [m \in ModeNames |->
        CASE m = "general" ->
                 <<"AddTasksTool", "AddShoppingItemsTool", "RespondTool">>
          [] m = "shopping" -> <<"AddShoppingItemsTool", "RespondTool">>
          [] m = "cooking" -> <<"AddShoppingItemsTool", "ReadRecipeTool">>
          [] OTHER -> <<>>]

\* an object a caller may pass as a tool although the catalog does not hold it
InvalidTool ==
    [qualname |-> "InvalidTool",
     input_schema |-> "InvalidSchema",
     output_schema |-> "InvalidSchema"]

----------------------------------------------------------------------------
(* Toolset: pure parts *)

\* faulty variant: the names of the mode are not applied
FilterAvailable_keeps_all(all_tools, available_tool_names) == all_tools

\* the list comprehension of the mode setter
FilterAvailable(all_tools, available_tool_names) ==
    SelectSeq(all_tools, LAMBDA tool : tool.qualname \in Range(available_tool_names))

\* faulty variant: only the first tool of the list is looked at
FirstUnavailable_head_only(tools, available) ==
    IF tools # <<>> /\ tools[1] \notin Range(available)
    THEN tools[1].qualname
    ELSE NoneVal

\* the loop of the selected_tools setter: NoneVal, or the first tool refused
FirstUnavailable(tools, available) ==
    LET bad == {i \in DOMAIN tools : tools[i] \notin Range(available)}
    IN  IF bad = {} THEN NoneVal ELSE tools[Min(bad)].qualname

available_tool_names == [i \in DOMAIN available_tools |-> available_tools[i].qualname]

selected_tool_names == [i \in DOMAIN selected_tools |-> selected_tools[i].qualname]

NoSchema == [schema |-> NoneVal]

SchemaClass(name) == [class |-> name]

IsInstance(obj, class_name) == "schema" \in DOMAIN obj /\ obj.schema = class_name

\* faulty variant: only the tools of the current mode are searched
get_tool_in_mode_only(tool_name, tool_schema) ==
    IF tool_name \in {NoneVal, ""} /\ tool_schema = NoSchema
    THEN [raised |-> "InvalidSelector", name |-> NoneVal]
    ELSE LET hit == {i \in DOMAIN available_tools :
                        \/ /\ tool_name # NoneVal
                           /\ available_tools[i].qualname = tool_name
                        \/ /\ tool_schema # NoSchema
                           /\ \/ IsInstance(tool_schema,
                                            available_tools[i].input_schema)
                              \/ tool_schema =
                                     SchemaClass(available_tools[i].input_schema)}
         IN  IF hit # {} THEN available_tools[Min(hit)]
             ELSE [raised |-> "ToolNotFound",
                   name |-> IF tool_name # NoneVal THEN tool_name
                            ELSE IF "class" \in DOMAIN tool_schema
                                 THEN tool_schema.class
                                 ELSE tool_schema.schema]

\* faulty variant: an instance of an input schema is not recognised
get_tool_class_only(tool_name, tool_schema) ==
    IF tool_name \in {NoneVal, ""} /\ tool_schema = NoSchema
    THEN [raised |-> "InvalidSelector", name |-> NoneVal]
    ELSE LET hit == {i \in DOMAIN TOOLS :
                        \/ tool_name # NoneVal /\ TOOLS[i].qualname = tool_name
                        \/ /\ tool_schema # NoSchema
                           /\ tool_schema = SchemaClass(TOOLS[i].input_schema)}
         IN  IF hit # {} THEN TOOLS[Min(hit)]
             ELSE [raised |-> "ToolNotFound",
                   name |-> IF tool_name # NoneVal THEN tool_name
                            ELSE IF "class" \in DOMAIN tool_schema
                                 THEN tool_schema.class
                                 ELSE tool_schema.schema]

\* get_tool: the tool, or [raised |-> ...]
get_tool(tool_name, tool_schema) ==
    IF tool_name \in {NoneVal, ""} /\ tool_schema = NoSchema
    THEN [raised |-> "InvalidSelector", name |-> NoneVal]
    ELSE LET hit == {i \in DOMAIN TOOLS :
                        \/ tool_name # NoneVal /\ TOOLS[i].qualname = tool_name
                        \/ /\ tool_schema # NoSchema
                           /\ \/ IsInstance(tool_schema, TOOLS[i].input_schema)
                              \/ tool_schema = SchemaClass(TOOLS[i].input_schema)}
         IN  IF hit # {} THEN TOOLS[Min(hit)]
             ELSE [raised |-> "ToolNotFound",
                   name |-> IF tool_name # NoneVal THEN tool_name
                            ELSE IF "class" \in DOMAIN tool_schema
                                 THEN tool_schema.class
                                 ELSE tool_schema.schema]

get_input_schema(tool_name) == get_tool(tool_name, NoSchema).input_schema

----------------------------------------------------------------------------
(* Tool inputs, and what running a tool returns *)

TaskTexts == {"Text Georgie back"}

ItemTexts == {"onions"}

RecipeNames == {"pie"}

ResponseTexts == {NoneVal, "Hello."}

NonEmptySeqs(S, n) == SeqsUpTo(S, n) \ {<<>>}

AddTasksInputs ==
    {[schema |-> "AddTasksInputSchema", tasks |-> t] :
        t \in NonEmptySeqs(TaskTexts, MaxListLen)}

AddShoppingItemsInputs ==
    {[schema |-> "AddShoppingItemsInputSchema", items |-> t] :
        t \in NonEmptySeqs(ItemTexts, MaxListLen)}

ReadRecipeInputs ==
    {[schema |-> "ReadRecipeInputSchema", recipe_name |-> n] : n \in RecipeNames}

RespondInputs ==
    {[schema |-> "RespondInputSchema", response |-> r] : r \in ResponseTexts}

ToolInputs ==
    AddTasksInputs \cup AddShoppingItemsInputs \cup ReadRecipeInputs
        \cup RespondInputs

\* AddTasksTool.run, once obsidian.add_tasks has returned
AddTasksTool_run(params) ==
    LET joined_tasks == Join(params.tasks, ", ")
        task_plural == IF Len(params.tasks) = 1 THEN "task" ELSE "tasks"
    IN  [schema |-> "AddTasksOutputSchema",
         result |-> "Added " \o ToString(Len(params.tasks)) \o " "
                        \o task_plural \o ": " \o joined_tasks]

\* AddShoppingItemsTool.run, given the names the Mealie parser answered
AddShoppingItemsTool_run(params, items) ==
    LET joined_items == Join(items, ", ")
        item_plural == IF Len(items) = 1 THEN "item" ELSE "items"
    IN  [schema |-> "AddShoppingItemsOutputSchema",
         result |-> "Added " \o ToString(Len(items)) \o " "
                        \o item_plural \o ": " \o joined_items]

\* what mealie.read_recipe can answer
RecipeStrings(recipe_name) ==
    {"# " \o recipe_name,
     "Recipe '" \o recipe_name \o "' not found."}

\* the answer of ReadRecipeTool.run when its mealie is not a Mealie
MealieNotAvailable(recipe_name) ==
    "Mealie instance not available to read recipe '" \o recipe_name \o "'."

ReadRecipeTool_run(params, recipe_str) ==
    [schema |-> "ReadRecipeOutputSchema", result |-> recipe_str]

RespondTool_run(params) ==
    [schema |-> "RespondOutputSchema", response |-> params.response]

\* every output called_tool.run(params) can return, over what the external
\* services answer
ToolOutputs(tool, params) ==
    CASE tool = AddTasksTool -> {AddTasksTool_run(params)}
      [] tool = AddShoppingItemsTool ->
             {AddShoppingItemsTool_run(params, params.items)}
      [] tool = ReadRecipeTool ->
             {ReadRecipeTool_run(params, r) : r \in RecipeStrings(params.recipe_name)}
      [] tool = RespondTool -> {RespondTool_run(params)}

\* tools whose run calls an external service, which may fail
ToolMayRaise(tool) == tool # RespondTool

\* what a successful called_tool.run(params) writes: AddTasksTool adds one
\* file of tasks to Obsidian, AddShoppingItemsTool posts the items to Mealie in
\* one request, the other tools write nothing
ToolWrites(tool, params) ==
    CASE tool = AddTasksTool ->
             <<[store |-> "obsidian", written |-> params.tasks]>>
      [] tool = AddShoppingItemsTool ->
             <<[store |-> "mealie", written |-> params.items]>>
      [] OTHER -> <<>>

\* faulty variant: the writes of the earlier passes are undone
ToolFailure_rolls_back(tool, params, effects, wrote) ==
    [error |-> [type |-> "ToolError", message |-> tool.qualname],
     effects |-> <<>>]

\* called_tool.run(params) raises and run does not catch it: the exception is
\* the tool's, the earlier writes stand, and the failed request has gone
\* through (wrote) or not
ToolFailure(tool, params, effects, wrote) ==
    [error |-> [type |-> "ToolError", message |-> tool.qualname],
     effects |-> IF wrote THEN effects \o ToolWrites(tool, params) ELSE effects]

hasattr(obj, name) == name \in DOMAIN obj

----------------------------------------------------------------------------
(* Toolset: the collaborators and the tool instances *)

\* an Obsidian or Mealie client object
Client == "<client>"

\* Toolset._kwargs is a set of <<name, value>> items, one per name
Keys(items) == {kv[1] : kv \in items}

Value(items, k) == (CHOOSE kv \in items : kv[1] = k)[2]

\* the keyword names a caller passes to Toolset(...): the collaborators of
\* the tools and "config", which no caller of a tool leaves to the Toolset
KwargNames == {"obsidian", "mealie", "config"}

\* the dicts a caller passes: each name at most once, bound to a client or
\* to None
KwargsArgs ==
    {items \in SUBSET (KwargNames \X {Client, NoneVal}) :
        \A kv1, kv2 \in items : kv1[1] = kv2[1] => kv1 = kv2}

\* Toolset.from_environ: both collaborators are clients
FromEnviron == {<<"mealie", Client>>, <<"obsidian", Client>>}

\* the names of the parameters of tool.__init__
parameters(tool) ==
    CASE tool = AddTasksTool -> {"self", "obsidian", "config"}
      [] tool = AddShoppingItemsTool -> {"self", "mealie", "config"}
      [] tool = ReadRecipeTool -> {"self", "config", "mealie"}
      [] tool = RespondTool -> {"self", "config"}

\* those of them that have no default value
required(tool) ==
    CASE tool = AddTasksTool -> {"obsidian"}
      [] tool = AddShoppingItemsTool -> {"mealie"}
      [] OTHER -> {}

get_kwargs_all(items, tool) == items

\* Toolset.get_kwargs, for the tool get_tool has resolved
get_kwargs(items, tool) ==
    LET valid_args == {p \in parameters(tool) : p \notin {"self", "config"}}
    IN  {kv \in items : kv[1] \in valid_args}

\* tool(config=tool_config, **tool_kwargs): Python binds the keywords to the
\* parameters of __init__, which stores each collaborator as given
tool_init(tool, tool_kwargs) ==
    LET given == Keys(tool_kwargs) \cup {"config"}
    IN  IF "config" \in Keys(tool_kwargs)
        THEN [raised |-> "TypeError",
              message |-> "got multiple values for keyword argument"]
        ELSE IF ~(given \subseteq parameters(tool) \ {"self"})
        THEN [raised |-> "TypeError",
              message |-> "got an unexpected keyword argument"]
        ELSE IF ~(required(tool) \subseteq given)
        THEN [raised |-> "TypeError",
              message |-> "missing 1 required positional argument"]
        ELSE [tool |-> tool,
              passed |-> tool_kwargs,
              collaborator |->
                  IF tool_kwargs = {} THEN NoneVal
                  ELSE Value(tool_kwargs, CHOOSE k \in Keys(tool_kwargs) : TRUE)]

\* Toolset.initialize_tool, for the tool get_tool has resolved
Toolset_initialize_tool(items, tool) == tool_init(tool, get_kwargs(items, tool))

\* TRUE when called_tool.run reaches its external service: RespondTool has
\* none, the others need their client
HasClient(instance) ==
    instance.tool = RespondTool \/ instance.collaborator = Client

----------------------------------------------------------------------------
(* The chain output schema *)

Remainders == {"", "r1"}

NextToolArgs == {NoneVal, "InvalidTool"} \cup Range(TOOL_NAMES)

\* the chain outputs the reasoning engine, or a caller, may try to construct
ChainOutputs ==
    [called_tool_input : {NoSchema} \cup ToolInputs,
     remainder : Remainders,
     next_tool : NextToolArgs]

\* faulty variant: next_tool is drawn from the selected tools
MakeChainToolOutputSchema_next_from_selected(selected, available_names) ==
    [tool_input_type |->
         {selected[i].input_schema : i \in DOMAIN selected} \cup {NoneVal},
     next_tool_type |->
         {selected[i].qualname : i \in DOMAIN selected} \cup {NoneVal}]

\* faulty variant: called_tool_input is drawn from the available tools
MakeChainToolOutputSchema_input_from_available(selected, available_names) ==
    [tool_input_type |->
         {get_input_schema(available_names[i]) : i \in DOMAIN available_names}
             \cup {NoneVal},
     next_tool_type |-> Range(available_names) \cup {NoneVal}]

\* the two field types MakeChainToolOutputSchema builds: the input schema
\* classes admitted for called_tool_input and the names admitted for
\* next_tool, None being admitted in both
MakeChainToolOutputSchema(selected, available_names) ==
    [tool_input_type |->
         {selected[i].input_schema : i \in DOMAIN selected} \cup {NoneVal},
     next_tool_type |-> Range(available_names) \cup {NoneVal}]

RuleRemainderNoNext ==
    "If remainder is not empty, next_tool must not be None."

RuleNextNoRemainder ==
    "If remainder is empty, next_tool must be None."

RuleRespondLast ==
    "If called_tool_input calls RespondTool, REMAINDER must be empty and next_tool must be None."

FieldTypeError ==
    "Input should be a valid value of the type of the field."

\* faulty variant: the check of an empty remainder with a next tool is missing
_validate_without_empty_remainder_rule(out) ==
    IF out.remainder # "" /\ out.next_tool = NoneVal
    THEN RuleRemainderNoNext
    ELSE IF /\ IsInstance(out.called_tool_input, get_input_schema("RespondTool"))
            /\ (out.remainder # "" \/ out.next_tool # NoneVal)
    THEN RuleRespondLast
    ELSE NoneVal

\* faulty variant: the RespondTool check is missing
_validate_without_respond_rule(out) ==
    IF out.remainder # "" /\ out.next_tool = NoneVal
    THEN RuleRemainderNoNext
    ELSE IF out.remainder = "" /\ out.next_tool # NoneVal
    THEN RuleNextNoRemainder
    ELSE NoneVal

\* faulty variant: the validator is not attached to the class
_validate_not_attached(out) == NoneVal

\* faulty variant: a next tool is refused unless a tool was called
_validate_refuses_skip(out) ==
    IF out.remainder # "" /\ out.next_tool = NoneVal
    THEN RuleRemainderNoNext
    ELSE IF out.remainder = "" /\ out.next_tool # NoneVal
    THEN RuleNextNoRemainder
    ELSE IF out.called_tool_input = NoSchema /\ out.next_tool # NoneVal
    THEN RuleNextNoRemainder
    ELSE IF /\ IsInstance(out.called_tool_input, get_input_schema("RespondTool"))
            /\ (out.remainder # "" \/ out.next_tool # NoneVal)
    THEN RuleRespondLast
    ELSE NoneVal

\* faulty variant: the RespondTool check comes first
_validate_respond_rule_first(out) ==
    IF /\ IsInstance(out.called_tool_input, get_input_schema("RespondTool"))
       /\ (out.remainder # "" \/ out.next_tool # NoneVal)
    THEN RuleRespondLast
    ELSE IF out.remainder # "" /\ out.next_tool = NoneVal
    THEN RuleRemainderNoNext
    ELSE IF out.remainder = "" /\ out.next_tool # NoneVal
    THEN RuleNextNoRemainder
    ELSE NoneVal

\* the model validator: NoneVal, or the message of the ValueError raised
_validate(out) ==
    IF out.remainder # "" /\ out.next_tool = NoneVal
    THEN RuleRemainderNoNext
    ELSE IF out.remainder = "" /\ out.next_tool # NoneVal
    THEN RuleNextNoRemainder
    ELSE IF /\ IsInstance(out.called_tool_input, get_input_schema("RespondTool"))
            /\ (out.remainder # "" \/ out.next_tool # NoneVal)
    THEN RuleRespondLast
    ELSE NoneVal

\* the validation error names the field whose value its type refuses
InputTypeError == "called_tool_input: " \o FieldTypeError

NextToolTypeError == "next_tool: " \o FieldTypeError

\* constructing ChainToolOutputSchema(**out): NoneVal, or the message of the
\* validation error (field types are validated before the model validator,
\* and every refused field is reported)
ChainToolOutputSchema(schema, out) ==
    LET bad_input == out.called_tool_input.schema \notin schema.tool_input_type
        bad_next == out.next_tool \notin schema.next_tool_type
    IN  IF bad_input /\ bad_next
        THEN InputTypeError \o "\n" \o NextToolTypeError
        ELSE IF bad_input THEN InputTypeError
        ELSE IF bad_next THEN NextToolTypeError
        ELSE _validate(out)

----------------------------------------------------------------------------
(* Toolset operations, as functions of the Toolset's state *)

Toolset ==
    [mode |-> mode, available_tools |-> available_tools,
     selected_tools |-> selected_tools, system_prompt |-> system_prompt]

\* Toolset(mode=m): the state after __init__
Toolset_init(m) ==
    LET available == FilterAvailable(TOOLS, AVAILABLE_MODES[m])
    IN  [mode |-> m, available_tools |-> available,
         selected_tools |-> available, system_prompt |-> NoneVal]

\* faulty variant: the mode is stored before the table is consulted
Toolset_mode_setter_stores_first(ts, m) ==
    IF m \notin DOMAIN AVAILABLE_MODES
    THEN [toolset |-> [ts EXCEPT !.mode = m], raised |-> "UnsupportedMode"]
    ELSE [toolset |-> [ts EXCEPT
              !.available_tools = FilterAvailable(TOOLS, AVAILABLE_MODES[m]),
              !.mode = m,
              !.system_prompt = m],
          raised |-> NoneVal]

\* toolset.mode = m (reading the mode's prompt is taken to succeed; the
\* prompt is modelled by the mode it was read for)
Toolset_mode_setter(ts, m) ==
    IF m \notin DOMAIN AVAILABLE_MODES
    THEN [toolset |-> ts, raised |-> "UnsupportedMode"]
    ELSE [toolset |-> [ts EXCEPT
              !.available_tools = FilterAvailable(TOOLS, AVAILABLE_MODES[m]),
              !.mode = m,
              !.system_prompt = m],
          raised |-> NoneVal]

\* faulty variant: the selection is stored in the order of available_tools
Toolset_selected_tools_setter_in_available_order(ts, tools) ==
    IF FirstUnavailable(tools, ts.available_tools) # NoneVal
    THEN [toolset |-> ts, raised |-> "ToolNotAvailable"]
    ELSE [toolset |->
              [ts EXCEPT !.selected_tools =
                             SelectSeq(ts.available_tools,
                                       LAMBDA t : t \in Range(tools))],
          raised |-> NoneVal]

\* toolset.selected_tools = tools
Toolset_selected_tools_setter(ts, tools) ==
    IF FirstUnavailable(tools, ts.available_tools) # NoneVal
    THEN [toolset |-> ts, raised |-> "ToolNotAvailable"]
    ELSE [toolset |-> [ts EXCEPT !.selected_tools = tools], raised |-> NoneVal]

\* faulty variant: the selection is left as it is
Toolset_reset_selected_tools_keeps(ts) == ts

\* faulty variant: the available tools are added to the selection
Toolset_reset_selected_tools_extends(ts) ==
    [ts EXCEPT !.selected_tools = @ \o ts.available_tools]

\* toolset.reset_selected_tools()
Toolset_reset_selected_tools(ts) ==
    [ts EXCEPT !.selected_tools = ts.available_tools]

\* str.lower(), on the texts of the model
Lower(text) == IF text = "General" THEN "general" ELSE text

\* process.extractOne(text, the mode names, scorer=WRatio, score_cutoff=85):
\* the best mode name scoring at least the cutoff, None when there is none
ExtractOne(text) ==
    CASE text = "I'm going shopping" -> "shopping"
      [] OTHER -> NoneVal

\* _match_phrase(text, phrases, as_index=False, score_cutoff=85)
_match_phrase(text, phrases) ==
    IF phrases = {} THEN NoneVal
    ELSE IF \E p \in phrases : Lower(p) = Lower(text)
    THEN CHOOSE p \in phrases : Lower(p) = Lower(text)
    ELSE ExtractOne(text)

\* toolset.match_mode(text): _match_phrase is called with the keyword
\* min_score, which it does not declare, so the call raises before matching
Toolset_match_mode(ts, text) ==
    [toolset |-> ts, raised |-> "TypeError", value |-> NoneVal]

----------------------------------------------------------------------------
(* AssistantAgent.run: the parts between its calls to the reasoning engine *)
(* and to the tool *)

\* max_chain when the caller gives none
DefaultMaxChain == 5

DefaultMarker == "Done."

NoError == [type |-> NoneVal]

\* faulty variant: one pass too many
LoopContinues_inclusive(i, n) == i <= n

\* for _ in range(max_chain): whether a pass follows i completed passes
LoopContinues(i, n) == i < n

\* faulty variant: the newest result is put first
AppendResult_newest_first(text, tool_resp) ==
    IF tool_resp # NoSchema /\ hasattr(tool_resp, "result")
    THEN <<tool_resp.result>> \o text
    ELSE text

\* if tool_response and hasattr(tool_response, "result"): append it
AppendResult(text, tool_resp) ==
    IF tool_resp # NoSchema /\ hasattr(tool_resp, "result")
    THEN Append(text, tool_resp.result)
    ELSE text

\* faulty variant: the captured results win over the tool's response
ReturnValue_results_first(text, tool_resp) ==
    IF Join(text, "\n") # "" THEN Join(text, "\n")
    ELSE IF tool_resp # NoSchema /\ hasattr(tool_resp, "response")
    THEN tool_resp.response
    ELSE DefaultMarker

\* the value run returns once next_tool is None
ReturnValue(text, tool_resp) ==
    IF tool_resp # NoSchema /\ hasattr(tool_resp, "response")
    THEN tool_resp.response
    ELSE IF Join(text, "\n") # "" THEN Join(text, "\n") ELSE DefaultMarker

\* faulty variant: the query is not replaced
NextQuery_unchanged(q, out) == q

\* query = response.remainder
NextQuery(q, out) == out.remainder

\* faulty variant: the next tool is added to the selection
SelectNextTool_appends(ts, next_tool) ==
    LET tool == get_tool(next_tool, NoSchema)
    IN  IF hasattr(tool, "raised")
        THEN [toolset |-> ts, raised |-> tool.raised]
        ELSE [toolset |-> [ts EXCEPT !.selected_tools = Append(@, tool)],
              raised |-> NoneVal]

\* faulty variant: the available tools are narrowed with the selection
SelectNextTool_narrows_available(ts, next_tool) ==
    LET tool == get_tool(next_tool, NoSchema)
    IN  IF hasattr(tool, "raised")
        THEN [toolset |-> ts, raised |-> tool.raised]
        ELSE [toolset |-> [ts EXCEPT !.selected_tools = <<tool>>,
                                     !.available_tools = <<tool>>],
              raised |-> NoneVal]

\* self.toolset.selected_tools = [self.toolset.get_tool(next_tool)]
SelectNextTool(ts, next_tool) ==
    LET tool == get_tool(next_tool, NoSchema)
    IN  IF hasattr(tool, "raised")
        THEN [toolset |-> ts, raised |-> tool.raised]
        ELSE Toolset_selected_tools_setter(ts, <<tool>>)

\* history = None
NoHistory == [history |-> NoneVal]

\* a ChatHistory object holding the turns, oldest first
ChatHistory(turns) == [turns |-> turns]

\* the turns of a history, none when there is no history
Turns(h) == IF hasattr(h, "turns") THEN h.turns ELSE <<>>

\* the turn holding the query a pass sends to the reasoning engine
UserTurn(q) == [role |-> "user", content |-> q]

\* the turn holding the chain output the engine answers in pass i of a run;
\* the output is identified by its pass, its text is not modelled
AssistantTurn(i) == [role |-> "assistant", content |-> i]

\* faulty variant: every pass starts on the new agent's empty history
AttachHistory_fresh(h) == ChatHistory(<<>>)

\* the history of the agent a pass creates: the new agent's own empty one,
\* replaced by the carried history when there is one (an empty ChatHistory
\* holds the same turns whether or not `if history` lets it be attached)
AttachHistory(h) == IF h # NoHistory THEN h ELSE ChatHistory(<<>>)

\* self.agent.run(...): the engine adds the query to the agent's history and,
\* when it answers, the chain output; when the call raises, appended tells
\* whether the query had been added before
EngineTurns(h, q, i, answered, appended) ==
    ChatHistory(
        Turns(h) \o (IF answered THEN <<UserTurn(q), AssistantTurn(i)>>
                     ELSE IF appended THEN <<UserTurn(q)>> ELSE <<>>))

\* the RuntimeError raised after the loop
MaxChainError(n, ts, q) ==
    [type |-> "RuntimeError", max_chain |-> n, mode |-> ts.mode, query |-> q]

----------------------------------------------------------------------------
(* Actions *)

SetToolset(ts) ==
    /\ mode' = ts.mode
    /\ available_tools' = ts.available_tools
    /\ selected_tools' = ts.selected_tools
    /\ system_prompt' = ts.system_prompt

\* no run is in progress: the caller may invoke an operation
Idle == pc = "idle"

\* the locals of an earlier run are gone once the caller goes on
NoRun ==
    /\ pc' = "idle"
    /\ query' = NoneVal
    /\ max_chain' = 0
    /\ chain_i' = 0
    /\ result_text' = <<>>
    /\ response' = NoSchema
    /\ tool_response' = NoSchema
    /\ returned' = <<>>
    /\ error' = NoError
    /\ llm_calls' = 0
    /\ tool_execs' = 0
    /\ run_effects' = <<>>
    /\ history' = NoHistory

ModeArgs == ModeNames \cup {"invalid_mode", "General"}

\* the lists a caller assigns: tools of the catalog and a stranger, each at
\* most once, in any order
SelectedArgs ==
    {tools \in SeqsUpTo(Range(TOOLS) \cup {InvalidTool}, MaxSelLen) :
        \A i, j \in DOMAIN tools : i # j => tools[i] # tools[j]}

MatchTexts ==
    {"general", "General", "I'm going shopping",
     "completely unrelated sentence"}

Queries == {"q0"}

\* the explicit max_chain arguments a caller passes
MaxChainArgs == (-1)..MaxChainArg

\* toolset = Toolset(mode=m, **items), agent = AssistantAgent(client, toolset)
Constructed(items) ==
    /\ \E m \in ModeNames :
           /\ mode = Toolset_init(m).mode
           /\ available_tools = Toolset_init(m).available_tools
           /\ selected_tools = Toolset_init(m).selected_tools
           /\ system_prompt = Toolset_init(m).system_prompt
    /\ pc = "idle"
    /\ query = NoneVal
    /\ max_chain = 0
    /\ chain_i = 0
    /\ result_text = <<>>
    /\ response = NoSchema
    /\ tool_response = NoSchema
    /\ returned = <<>>
    /\ error = NoError
    /\ llm_calls = 0
    /\ tool_execs = 0
    /\ run_effects = <<>>
    /\ history = NoHistory
    /\ agent_history = NoHistory
    /\ last_op = [op |-> "__init__", raised |-> NoneVal]
    /\ kwargs = items

\* the process holds one Toolset and one AssistantAgent
NoPeer == [peer |-> NoneVal]

\* the Toolset holds both collaborators, as Toolset.from_environ makes it
Init == Constructed(FromEnviron) /\ peer = NoPeer

\* the Toolset holds whatever its caller passed
KwargsInit == (\E items \in KwargsArgs : Constructed(items)) /\ peer = NoPeer

\* the attributes of the Toolset and the AssistantAgent an operation is
\* invoked on, and the locals of its run
Self ==
    [mode |-> mode, available_tools |-> available_tools,
     selected_tools |-> selected_tools, system_prompt |-> system_prompt,
     all_tools |-> TOOLS, pc |-> pc, query |-> query, max_chain |-> max_chain,
     chain_i |-> chain_i, result_text |-> result_text, response |-> response,
     tool_response |-> tool_response, returned |-> returned, error |-> error,
     llm_calls |-> llm_calls, tool_execs |-> tool_execs,
     run_effects |-> run_effects, history |-> history,
     agent_history |-> agent_history, last_op |-> last_op, kwargs |-> kwargs]

\* two Toolsets, each with its AssistantAgent, constructed one after the
\* other: self._all_tools = TOOLS.copy() gives each its own catalog
PairInit ==
    /\ Constructed(FromEnviron)
    /\ \E m \in ModeNames :
           peer = [Self EXCEPT
                      !.mode = Toolset_init(m).mode,
                      !.available_tools = Toolset_init(m).available_tools,
                      !.selected_tools = Toolset_init(m).selected_tools,
                      !.system_prompt = Toolset_init(m).system_prompt]

\* faulty variant: the mode and the tool lists are attributes of the class,
\* which every instance reads
OtherInstance_shares_class ==
    peer' = IF peer = NoPeer THEN peer
            ELSE [peer EXCEPT !.mode = mode',
                              !.available_tools = available_tools',
                              !.selected_tools = selected_tools']

\* an operation assigns attributes of self and locals of its call: the
\* objects of the other Toolset and AssistantAgent are not written
OtherInstance == peer' = peer

\* the next operation, or the next step of a run, is on the other pair
Switch ==
    /\ peer # NoPeer
    /\ peer' = Self
    /\ mode' = peer.mode
    /\ available_tools' = peer.available_tools
    /\ selected_tools' = peer.selected_tools
    /\ system_prompt' = peer.system_prompt
    /\ pc' = peer.pc
    /\ query' = peer.query
    /\ max_chain' = peer.max_chain
    /\ chain_i' = peer.chain_i
    /\ result_text' = peer.result_text
    /\ response' = peer.response
    /\ tool_response' = peer.tool_response
    /\ returned' = peer.returned
    /\ error' = peer.error
    /\ llm_calls' = peer.llm_calls
    /\ tool_execs' = peer.tool_execs
    /\ run_effects' = peer.run_effects
    /\ history' = peer.history
    /\ agent_history' = peer.agent_history
    /\ last_op' = peer.last_op
    /\ kwargs' = peer.kwargs

SetMode(m) ==
    /\ Idle
    /\ LET r == Toolset_mode_setter(Toolset, m)
       IN  /\ SetToolset(r.toolset)
           /\ last_op' = [op |-> "mode_setter", raised |-> r.raised]
    /\ UNCHANGED <<agent_history, kwargs>>
    /\ OtherInstance
    /\ NoRun

SetSelectedTools(tools) ==
    /\ Idle
    /\ LET r == Toolset_selected_tools_setter(Toolset, tools)
       IN  /\ SetToolset(r.toolset)
           /\ last_op' = [op |-> "selected_tools_setter", raised |-> r.raised]
    /\ UNCHANGED <<agent_history, kwargs>>
    /\ OtherInstance
    /\ NoRun

ResetSelectedTools ==
    /\ Idle
    /\ SetToolset(Toolset_reset_selected_tools(Toolset))
    /\ last_op' = [op |-> "reset_selected_tools", raised |-> NoneVal]
    /\ UNCHANGED <<agent_history, kwargs>>
    /\ OtherInstance
    /\ NoRun

MatchMode(text) ==
    /\ Idle
    /\ LET r == Toolset_match_mode(Toolset, text)
       IN  /\ SetToolset(r.toolset)
           /\ last_op' = [op |-> "match_mode", raised |-> r.raised]
    /\ UNCHANGED <<agent_history, kwargs>>
    /\ OtherInstance
    /\ NoRun

\* the selectors a caller passes to get_tool: names of the catalog and a
\* stranger; input schema classes and instances of the catalog and strangers
GetToolNameArgs == {NoneVal, "", "InvalidTool"} \cup Range(TOOL_NAMES)

GetToolSchemaArgs ==
    {NoSchema, SchemaClass("InvalidSchema"), [schema |-> "InvalidSchema"]}
        \cup {SchemaClass(TOOLS[i].input_schema) : i \in DOMAIN TOOLS}
        \cup ToolInputs

\* toolset.get_tool(tool_name=tool_name, tool_schema=tool_schema)
GetTool(tool_name, tool_schema) ==
    /\ Idle
    /\ LET r == get_tool(tool_name, tool_schema)
       IN  last_op' =
               IF hasattr(r, "raised")
               THEN [op |-> "get_tool", raised |-> r.raised,
                     value |-> NoneVal, name |-> r.name]
               ELSE [op |-> "get_tool", raised |-> NoneVal,
                     value |-> r.qualname, name |-> NoneVal]
    /\ UNCHANGED <<toolset_vars, agent_history, kwargs>>
    /\ OtherInstance
    /\ NoRun

\* toolset.initialize_tool(tool_name=tool_name, tool_schema=tool_schema)
InitializeTool(tool_name, tool_schema) ==
    /\ Idle
    /\ LET tool == get_tool(tool_name, tool_schema)
           r == IF hasattr(tool, "raised")
                THEN [raised |-> "ValueError", message |-> tool.raised]
                ELSE Toolset_initialize_tool(kwargs, tool)
       IN  last_op' =
               IF hasattr(r, "raised")
               THEN [op |-> "initialize_tool", raised |-> r.raised,
                     value |-> NoneVal]
               ELSE [op |-> "initialize_tool", raised |-> NoneVal, value |-> r]
    /\ UNCHANGED <<toolset_vars, agent_history, kwargs>>
    /\ OtherInstance
    /\ NoRun

\* a caller builds the schema for the Toolset and constructs a chain output
ConstructChainOutput(out) ==
    /\ Idle
    /\ LET schema == MakeChainToolOutputSchema(selected_tools, available_tool_names)
       IN  last_op' = [op |-> "ChainToolOutputSchema",
                       raised |-> ChainToolOutputSchema(schema, out)]
    /\ UNCHANGED <<toolset_vars, agent_history, kwargs>>
    /\ OtherInstance
    /\ NoRun

\* agent.run(q, reset_selected_tools=reset, max_chain=n), up to the loop;
\* given is FALSE when the caller leaves max_chain out
StartRun(q, reset, given, n) ==
    /\ Idle
    /\ SetToolset(IF reset THEN Toolset_reset_selected_tools(Toolset) ELSE Toolset)
    /\ pc' = "iterating"
    /\ query' = q
    /\ max_chain' = IF given THEN n ELSE DefaultMaxChain
    /\ chain_i' = 0
    /\ result_text' = <<>>
    /\ response' = NoSchema
    /\ tool_response' = NoSchema
    /\ returned' = <<>>
    /\ error' = NoError
    /\ llm_calls' = 0
    /\ tool_execs' = 0
    /\ run_effects' = <<>>
    /\ history' = agent_history
    /\ UNCHANGED <<agent_history, kwargs>>
    /\ OtherInstance
    /\ last_op' = [op |-> "run", raised |-> NoneVal, given |-> given]

\* one pass of the loop, up to the answer of the reasoning engine: the schema
\* is built from the Toolset, and the engine's answer is an instance of it or
\* the call raises the validation error
CallReasoningEngine(out) ==
    /\ pc = "iterating"
    /\ LoopContinues(chain_i, max_chain)
    /\ llm_calls' = llm_calls + 1
    /\ LET schema == MakeChainToolOutputSchema(selected_tools, available_tool_names)
           raised == ChainToolOutputSchema(schema, out)
       IN  IF raised = NoneVal
           THEN /\ response' = out
                /\ tool_response' = NoSchema
                /\ pc' = "called"
                /\ error' = error
           ELSE /\ response' = response
                /\ tool_response' = tool_response
                /\ pc' = "failed"
                /\ error' = [type |-> "ValidationError", message |-> raised]
    /\ \E appended \in BOOLEAN :
           agent_history' =
               EngineTurns(AttachHistory(history), query, chain_i + 1,
                           pc' = "called", appended)
    \* a carried history is the object attached to the new agent: it holds
    \* what the engine adds
    /\ history' = IF history # NoHistory THEN agent_history' ELSE history
    /\ UNCHANGED <<toolset_vars, query, max_chain, chain_i, result_text,
                   returned, tool_execs, run_effects, last_op, kwargs>>
    /\ OtherInstance

AfterToolRun_runs_again == "called"

\* where the pass stands once called_tool.run has returned: the result is
\* captured next
AfterToolRun == "executed"

\* called_tool.run(params) of a tool whose collaborator is None: ReadRecipeTool
\* answers that Mealie is not available, AddTasksTool and AddShoppingItemsTool
\* call a method of None
NoClientRun(called_tool, ok) ==
    /\ ok
    /\ run_effects' = run_effects
    /\ IF called_tool.tool = ReadRecipeTool
       THEN /\ tool_response' =
                   ReadRecipeTool_run(
                       response.called_tool_input,
                       MealieNotAvailable(response.called_tool_input.recipe_name))
            /\ pc' = AfterToolRun
            /\ error' = error
       ELSE /\ tool_response' = tool_response
            /\ pc' = "failed"
            /\ error' = [type |-> "AttributeError",
                         message |-> "'NoneType' object has no attribute"]

\* called_tool = initialize_tool(tool_schema=...); called_tool.run(...);
\* ok is FALSE when the tool's external service fails
ExecuteTool(ok) ==
    /\ pc = "called"
    /\ response.called_tool_input # NoSchema
    /\ LET tool == get_tool(NoneVal, response.called_tool_input)
       IN  IF hasattr(tool, "raised")
           THEN /\ ok
                /\ pc' = "failed"
                /\ error' = [type |-> "ValueError", message |-> tool.raised]
                /\ UNCHANGED <<tool_response, tool_execs, run_effects>>
           ELSE LET called_tool == Toolset_initialize_tool(kwargs, tool)
                IN  IF hasattr(called_tool, "raised")
                    THEN /\ ok
                         /\ pc' = "failed"
                         /\ error' = [type |-> called_tool.raised,
                                      message |-> called_tool.message]
                         /\ UNCHANGED <<tool_response, tool_execs, run_effects>>
                    ELSE /\ tool_execs' = tool_execs + 1
                         /\ IF ~HasClient(called_tool)
                            THEN NoClientRun(called_tool, ok)
                            ELSE IF ok
                            THEN /\ tool_response' \in
                                        ToolOutputs(tool, response.called_tool_input)
                                 /\ run_effects' =
                                        run_effects
                                            \o ToolWrites(tool, response.called_tool_input)
                                 /\ pc' = AfterToolRun
                                 /\ error' = error
                            ELSE /\ ToolMayRaise(tool)
                                 /\ tool_response' = tool_response
                                 /\ pc' = "failed"
                                 /\ \E wrote \in BOOLEAN :
                                        LET r == ToolFailure(
                                                     tool, response.called_tool_input,
                                                     run_effects, wrote)
                                        IN  /\ error' = r.error
                                            /\ run_effects' = r.effects
    /\ UNCHANGED <<toolset_vars, query, max_chain, chain_i, result_text,
                   response, returned, llm_calls, history, agent_history,
                   last_op, kwargs>>
    /\ OtherInstance

\* the rest of the pass: capture the result, then return or go on
Advance ==
    /\ \/ pc = "executed"
       \/ pc = "called" /\ response.called_tool_input = NoSchema
    /\ result_text' = AppendResult(result_text, tool_response)
    /\ IF response.next_tool = NoneVal
       THEN /\ returned' = <<ReturnValue(result_text', tool_response)>>
            /\ pc' = "done"
            /\ UNCHANGED <<toolset_vars, query, chain_i, error, history>>
       ELSE LET r == SelectNextTool(Toolset, response.next_tool)
            IN  /\ query' = NextQuery(query, response)
                /\ SetToolset(r.toolset)
                /\ IF r.raised = NoneVal
                   THEN /\ pc' = "iterating"
                        /\ chain_i' = chain_i + 1
                        /\ error' = error
                        /\ history' = agent_history
                   ELSE /\ pc' = "failed"
                        /\ chain_i' = chain_i
                        /\ error' = [type |-> "ValueError", message |-> r.raised]
                        /\ history' = history
                /\ returned' = returned
    /\ UNCHANGED <<max_chain, response, tool_response, llm_calls, tool_execs,
                   run_effects, agent_history, last_op, kwargs>>
    /\ OtherInstance

\* the loop is exhausted
MaxChainExceeded ==
    /\ pc = "iterating"
    /\ ~LoopContinues(chain_i, max_chain)
    /\ pc' = "failed"
    /\ error' = MaxChainError(max_chain, Toolset, query)
    /\ UNCHANGED <<toolset_vars, query, max_chain, chain_i, result_text,
                   response, tool_response, returned, llm_calls, tool_execs,
                   run_effects, history, agent_history, last_op, kwargs>>
    /\ OtherInstance

\* faulty variant: the selection is reset when the run is over
RunEnds_restores_selection(keep) ==
    /\ pc \in {"done", "failed"}
    /\ NoRun
    /\ agent_history' = IF keep THEN agent_history ELSE NoHistory
    /\ last_op' = [last_op EXCEPT
                       !.raised = IF pc = "failed" THEN error.type ELSE NoneVal]
    /\ SetToolset(Toolset_reset_selected_tools(Toolset))
    /\ UNCHANGED kwargs
    /\ OtherInstance

\* run has returned its value, or raised its exception, to the caller; keep
\* is FALSE when the caller then drops the AssistantAgent and constructs
\* another over the same Toolset, whose agent is None
RunEnds(keep) ==
    /\ pc \in {"done", "failed"}
    /\ NoRun
    /\ agent_history' = IF keep THEN agent_history ELSE NoHistory
    /\ last_op' = [last_op EXCEPT
                       !.raised = IF pc = "failed" THEN error.type ELSE NoneVal]
    /\ UNCHANGED <<toolset_vars, kwargs>>
    /\ OtherInstance

Next ==
    \/ \E m \in ModeArgs : SetMode(m)
    \/ \E tools \in SelectedArgs : SetSelectedTools(tools)
    \/ ResetSelectedTools
    \/ \E text \in MatchTexts : MatchMode(text)
    \/ \E out \in ChainOutputs : ConstructChainOutput(out)
    \/ \E tool_name \in GetToolNameArgs, tool_schema \in GetToolSchemaArgs :
           GetTool(tool_name, tool_schema)
    \/ \E q \in Queries, reset \in BOOLEAN, given \in BOOLEAN,
          n \in MaxChainArgs : StartRun(q, reset, given, n)
    \/ \E out \in ChainOutputs : CallReasoningEngine(out)
    \/ \E ok \in BOOLEAN : ExecuteTool(ok)
    \/ Advance
    \/ MaxChainExceeded
    \/ RunEnds(FALSE)

Spec == Init /\ [][Next]_vars

\* the chain outputs of the engine in the runs below: those that call no
\* tool, AddTasksTool with one task, or RespondTool
HistoryOutputs ==
    {out \in ChainOutputs :
        \/ out.called_tool_input \in {NoSchema} \cup RespondInputs
        \/ /\ out.called_tool_input \in AddTasksInputs
           /\ Len(out.called_tool_input.tasks) = 1}

\* the runs of one AssistantAgent that its callers keep: a run starts while
\* the history carried over holds at most MaxChainArg turns
HistoryNext ==
    \/ \E q \in Queries, reset \in BOOLEAN, given \in BOOLEAN,
          n \in MaxChainArgs :
           /\ Len(Turns(agent_history)) <= MaxChainArg
           /\ StartRun(q, reset, given, n)
    \/ \E out \in HistoryOutputs : CallReasoningEngine(out)
    \/ \E ok \in BOOLEAN : ExecuteTool(ok)
    \/ Advance
    \/ MaxChainExceeded
    \/ \E keep \in BOOLEAN : RunEnds(keep)

HistorySpec == Init /\ [][HistoryNext]_vars

\* the chain outputs of the engine in the runs below: those of HistoryOutputs
\* and AddShoppingItemsTool with one item
ResultsOutputs ==
    HistoryOutputs \cup
        {out \in ChainOutputs :
            /\ out.called_tool_input \in AddShoppingItemsInputs
            /\ Len(out.called_tool_input.items) = 1}

\* runs with an explicit max_chain, one after the other on one AssistantAgent
\* that its callers keep: a run starts while the history carried over holds
\* at most MaxChainArg turns
ResultsNext ==
    \/ \E q \in Queries, reset \in BOOLEAN, n \in MaxChainArgs :
           /\ Len(Turns(agent_history)) <= MaxChainArg
           /\ StartRun(q, reset, TRUE, n)
    \/ \E out \in ResultsOutputs : CallReasoningEngine(out)
    \/ \E ok \in BOOLEAN : ExecuteTool(ok)
    \/ Advance
    \/ MaxChainExceeded
    \/ RunEnds(TRUE)

ResultsSpec == Init /\ [][ResultsNext]_vars

\* the callers of the Toolset alone: no run is made
ToolsetNext ==
    \/ \E m \in ModeArgs : SetMode(m)
    \/ \E tools \in SelectedArgs : SetSelectedTools(tools)
    \/ ResetSelectedTools
    \/ \E text \in MatchTexts : MatchMode(text)
    \/ \E out \in ChainOutputs : ConstructChainOutput(out)
    \/ \E tool_name \in GetToolNameArgs, tool_schema \in GetToolSchemaArgs :
           GetTool(tool_name, tool_schema)

ToolsetSpec == Init /\ [][ToolsetNext]_vars

\* the callers that set the mode and the selection and run with an explicit
\* max_chain, on a new AssistantAgent each time
RunNext ==
    \/ \E m \in ModeArgs : SetMode(m)
    \/ \E tools \in SelectedArgs : SetSelectedTools(tools)
    \/ \E q \in Queries, reset \in BOOLEAN, n \in MaxChainArgs :
           StartRun(q, reset, TRUE, n)
    \/ \E out \in ChainOutputs : CallReasoningEngine(out)
    \/ \E ok \in BOOLEAN : ExecuteTool(ok)
    \/ Advance
    \/ MaxChainExceeded
    \/ RunEnds(FALSE)

RunSpec == Init /\ [][RunNext]_vars

\* the callers of a Toolset constructed with any collaborators: they
\* instantiate tools, and run one pass on a new AssistantAgent
KwargsNext ==
    \/ \E tool_name \in GetToolNameArgs, tool_schema \in GetToolSchemaArgs :
           InitializeTool(tool_name, tool_schema)
    \/ \E q \in Queries, reset \in BOOLEAN : StartRun(q, reset, TRUE, 1)
    \/ \E out \in ChainOutputs : CallReasoningEngine(out)
    \/ \E ok \in BOOLEAN : ExecuteTool(ok)
    \/ Advance
    \/ MaxChainExceeded
    \/ RunEnds(FALSE)

KwargsSpec == KwargsInit /\ [][KwargsNext]_vars

\* the modes the callers of the two Toolsets set
PairModes == {"general", "shopping"}

\* the chain outputs of the engine in the runs of the two pairs: no tool is
\* called, or RespondTool is, and the chain ends or goes on
PairOutputs ==
    {out \in ChainOutputs :
        /\ out.called_tool_input \in
               {NoSchema, [schema |-> "RespondInputSchema", response |-> "Hello."]}
        /\ out.next_tool \in {NoneVal, "RespondTool"}
        /\ out.remainder = "" <=> out.next_tool = NoneVal}

\* two chains in one process, each on its own Toolset and AssistantAgent:
\* their operations and the steps of their runs interleave in any order
PairStep ==
    \/ \E m \in PairModes : SetMode(m)
    \/ SetSelectedTools(<<RespondTool>>)
    \/ \E q \in Queries, reset \in BOOLEAN : StartRun(q, reset, TRUE, 1)
    \/ \E out \in PairOutputs : CallReasoningEngine(out)
    \/ \E ok \in BOOLEAN : ExecuteTool(ok)
    \/ Advance
    \/ MaxChainExceeded
    \/ RunEnds(FALSE)

PairNext == Switch \/ PairStep

PairSpec == PairInit /\ [][PairNext]_vars

----------------------------------------------------------------------------
(* Properties *)

\* the steps of a run in progress
RunStep ==
    \/ \E out \in ChainOutputs : CallReasoningEngine(out)
    \/ \E ok \in BOOLEAN : ExecuteTool(ok)
    \/ Advance
    \/ MaxChainExceeded

\* the number of passes range(max_chain) allows
Passes == IF max_chain > 0 THEN max_chain ELSE 0

\* C1: a run makes at most max_chain reasoning-engine calls and at most
\* max_chain tool executions (5 when max_chain is not given), is never stuck
\* before it ends, and when it fails it fails with the maximum-chain error,
\* unless a reasoning-engine call (ValidationError) or a tool (ToolError) did
\* not return.
C1_RunEndsWithinMaxChain ==
    pc # "idle" =>
        /\ ~last_op.given => max_chain = 5
        /\ chain_i <= Passes
        /\ llm_calls <= Passes
        /\ tool_execs <= Passes
        /\ pc = "failed" =>
               error.type \in {"RuntimeError", "ValidationError", "ToolError"}
        /\ pc \in {"done", "failed"} \/ ENABLED RunStep

\* C1 witness: a run without max_chain has made its fifth reasoning-engine
\* call and fifth tool execution and has failed with the maximum-chain error
C1_Witness ==
    /\ pc = "failed"
    /\ error.type = "RuntimeError"
    /\ ~last_op.given
    /\ llm_calls = 5
    /\ tool_execs = 5

\* C2: the maximum-chain error is raised after exactly max_chain passes, none
\* of which had next_tool None, and it names the Toolset's mode and the
\* remainder of the last pass's chain output; after max_chain passes without
\* a terminal output nothing else can happen.
C2_MaxChainErrorAfterExactlyMaxChain ==
    /\ (pc = "failed" /\ error.type = "RuntimeError") =>
           /\ chain_i = Passes
           /\ llm_calls = Passes
           /\ error.max_chain = max_chain
           /\ error.mode = mode
           /\ Passes >= 1 =>
                  /\ response.next_tool # NoneVal
                  /\ error.query = response.remainder
    /\ (pc = "iterating" /\ chain_i >= Passes) =>
           /\ ENABLED MaxChainExceeded
           /\ ~ENABLED (\E out \in ChainOutputs : CallReasoningEngine(out))

\* C2 witness: run(query, max_chain=1) has failed after one pass
C2_Witness ==
    /\ pc = "failed"
    /\ error.type = "RuntimeError"
    /\ last_op.given
    /\ max_chain = 1
    /\ llm_calls = 1
    /\ error.query = "r1"

\* C3: every selected tool is an available tool.
C3_SelectedSubsetOfAvailable ==
    Range(selected_tools) \subseteq Range(available_tools)

\* C4: a successful mode change leaves selected_tools equal to the new
\* available_tools.
C4_ModeChangeResetsSelected ==
    [][\A m \in ModeArgs :
           (SetMode(m) /\ last_op'.raised = NoneVal) =>
               selected_tools' = available_tools']_vars

\* C5: a chain output the schema accepts has a non-empty remainder exactly
\* when its next_tool is not None, whatever its called_tool_input.
C5_RemainderIffNextTool ==
    Idle =>
        \A out \in ChainOutputs :
            /\ ENABLED ConstructChainOutput(out)
            /\ ~ENABLED (/\ ConstructChainOutput(out)
                         /\ last_op'.raised = NoneVal
                         /\ ~(out.remainder # "" <=> out.next_tool # NoneVal))

\* C5 witness: a chain output with a remainder and no next tool was rejected
C5_Witness ==
    /\ last_op.op = "ChainToolOutputSchema"
    /\ last_op.raised = RuleRemainderNoNext

\* C6: a chain output whose called_tool_input is a RespondTool input is
\* accepted only with an empty remainder and next_tool None, whatever the
\* response text.
C6_RespondIsLast ==
    Idle =>
        \A out \in ChainOutputs :
            IsInstance(out.called_tool_input, RespondTool.input_schema) =>
                ~ENABLED (/\ ConstructChainOutput(out)
                          /\ last_op'.raised = NoneVal
                          /\ ~(out.remainder = "" /\ out.next_tool = NoneVal))

\* C6 witness: a RespondTool input with a remainder and a next tool was
\* rejected by the RespondTool rule
C6_Witness ==
    /\ last_op.op = "ChainToolOutputSchema"
    /\ last_op.raised = RuleRespondLast

\* C7: after a pass whose chain output named a next tool, the query is that
\* output's remainder, the selection is the one-element list of the tool
\* named, and the schema of the following pass admits as called_tool_input
\* only that tool's input schema or None.
C7_NarrowsToNextTool ==
    (pc = "iterating" /\ chain_i >= 1) =>
        /\ response.next_tool # NoneVal
        /\ query = response.remainder
        /\ selected_tool_names = <<response.next_tool>>
        /\ selected_tools[1] \in Range(TOOLS)
        /\ MakeChainToolOutputSchema(selected_tools, available_tool_names).tool_input_type
               = {selected_tools[1].input_schema, NoneVal}

\* C7 witness: a pass has ended with a next tool in a mode of three tools
C7_Witness ==
    /\ pc = "iterating"
    /\ chain_i >= 1
    /\ Len(available_tools) = 3
    /\ response.called_tool_input # NoSchema

\* C8: a run that returns returns the response of the tool executed in the
\* last pass if its output has one, else the captured results joined by
\* newlines if there are any, else "Done.".
C8_ReturnPriority ==
    pc = "done" =>
        /\ response.next_tool = NoneVal
        /\ Len(returned) = 1
        /\ IF /\ response.called_tool_input # NoSchema
              /\ "response" \in DOMAIN tool_response
           THEN returned[1] = tool_response.response
           ELSE IF result_text # <<>>
           THEN returned[1] = Join(result_text, "\n")
           ELSE returned[1] = "Done."

\* C8 witness: results were captured before a tool with a response ended the
\* run
C8_Witness ==
    /\ pc = "done"
    /\ result_text # <<>>
    /\ "response" \in DOMAIN tool_response
    /\ returned = <<"Hello.">>

\* C9: assigning selected_tools a list holding, at any position, a tool that
\* is not available raises the tool-not-available error and changes neither
\* selected_tools nor mode nor available_tools.
C9_UnavailableSelectionRefused ==
    Idle =>
        \A tools \in SelectedArgs :
            (\E i \in DOMAIN tools : tools[i] \notin Range(available_tools)) =>
                /\ ENABLED SetSelectedTools(tools)
                /\ ~ENABLED (/\ SetSelectedTools(tools)
                             /\ ~(/\ last_op'.raised = "ToolNotAvailable"
                                  /\ selected_tools' = selected_tools
                                  /\ mode' = mode
                                  /\ available_tools' = available_tools))

\* C9 witness: an assignment was refused while the selection was narrowed
C9_Witness ==
    /\ last_op.op = "selected_tools_setter"
    /\ last_op.raised = "ToolNotAvailable"
    /\ Len(selected_tools) = 1

\* C10: setting the mode to a name outside the mode table raises the
\* unsupported-mode error and changes neither mode nor available_tools nor
\* selected_tools.
C10_UnsupportedModeRefused ==
    Idle =>
        \A m \in ModeArgs \ ModeNames :
            /\ ENABLED SetMode(m)
            /\ ~ENABLED (/\ SetMode(m)
                         /\ ~(/\ last_op'.raised = "UnsupportedMode"
                              /\ mode' = mode
                              /\ available_tools' = available_tools
                              /\ selected_tools' = selected_tools))

\* C10 witness: a mode change was refused in a mode other than the default
C10_Witness ==
    /\ last_op.op = "mode_setter"
    /\ last_op.raised = "UnsupportedMode"
    /\ mode = "cooking"

NextToolRefused(raised) ==
    raised \in {NextToolTypeError, InputTypeError \o "\n" \o NextToolTypeError}

\* the validation message reports the field called_tool_input
InputRefused(raised) ==
    raised \in {InputTypeError, InputTypeError \o "\n" \o NextToolTypeError}

\* C12: the schema built for the Toolset refuses a next_tool exactly when it
\* is neither None nor the name of an available tool, whether or not the tool
\* is selected.
C12_NextToolIsAvailableOrNone ==
    Idle =>
        \A out \in ChainOutputs :
            /\ ENABLED ConstructChainOutput(out)
            /\ ~ENABLED (/\ ConstructChainOutput(out)
                         /\ ~(NextToolRefused(last_op'.raised) <=>
                                  out.next_tool \notin
                                      Range(available_tool_names) \cup {NoneVal}))

\* C12 witness: a chain output naming an available tool that is not selected
\* has just been accepted
C12_Witness ==
    /\ Idle
    /\ \E out \in ChainOutputs :
           /\ out.next_tool \in Range(available_tool_names)
           /\ out.next_tool \notin Range(selected_tool_names)
           /\ ENABLED (/\ ConstructChainOutput(out)
                       /\ last_op'.raised = NoneVal
                       /\ last_op' = last_op)

\* C13: the schema built for the Toolset refuses a called_tool_input exactly
\* when it is neither None nor an instance of the input schema of a selected
\* tool, so the input of an available tool that is not selected is refused.
C13_ToolInputIsSelectedOrNone ==
    Idle =>
        \A out \in ChainOutputs :
            ~ENABLED (/\ ConstructChainOutput(out)
                      /\ ~(InputRefused(last_op'.raised) <=>
                               /\ out.called_tool_input # NoSchema
                               /\ \A i \in DOMAIN selected_tools :
                                      ~IsInstance(out.called_tool_input,
                                                  selected_tools[i].input_schema)))

\* C13 witness: the input of an available tool that is not selected has just
\* been refused
C13_Witness ==
    /\ Idle
    /\ \E out \in ChainOutputs :
           /\ out.called_tool_input # NoSchema
           /\ get_tool(NoneVal, out.called_tool_input) \in Range(available_tools)
           /\ get_tool(NoneVal, out.called_tool_input) \notin Range(selected_tools)
           /\ ENABLED (/\ ConstructChainOutput(out)
                       /\ last_op'.raised = InputTypeError
                       /\ last_op' = last_op)

\* a chain output that calls no tool and hands a remainder to an available
\* tool
SkipAndAdvance(out) ==
    /\ out.called_tool_input = NoSchema
    /\ out.remainder # ""
    /\ out.next_tool \in Range(available_tool_names)

\* C14: a chain output with called_tool_input None, a non-empty remainder and
\* an available next_tool is accepted by the schema, by a caller and in a
\* pass of run; in that pass run executes no tool and goes on with the
\* remainder as query and the next tool as the only selected tool.
C14_SkipAndAdvance ==
    /\ Idle =>
           \A out \in ChainOutputs :
               SkipAndAdvance(out) =>
                   /\ ENABLED ConstructChainOutput(out)
                   /\ ~ENABLED (/\ ConstructChainOutput(out)
                                /\ last_op'.raised # NoneVal)
    /\ (pc = "iterating" /\ LoopContinues(chain_i, max_chain)) =>
           \A out \in ChainOutputs :
               SkipAndAdvance(out) =>
                   /\ ENABLED CallReasoningEngine(out)
                   /\ ~ENABLED (CallReasoningEngine(out) /\ pc' # "called")
    /\ (pc = "called" /\ SkipAndAdvance(response)) =>
           /\ ~ENABLED (\E ok \in BOOLEAN : ExecuteTool(ok))
           /\ ENABLED Advance
           /\ ~ENABLED (/\ Advance
                        /\ ~(/\ pc' = "iterating"
                             /\ chain_i' = chain_i + 1
                             /\ tool_execs' = tool_execs
                             /\ tool_response' = NoSchema
                             /\ result_text' = result_text
                             /\ query' = response.remainder
                             /\ selected_tool_names' = <<response.next_tool>>))

\* C14 witness: the first pass of a run skipped and the run goes on
C14_Witness ==
    /\ pc = "iterating"
    /\ chain_i = 1
    /\ response.called_tool_input = NoSchema
    /\ tool_execs = 0
    /\ query = "r1"
    /\ selected_tool_names = <<response.next_tool>>
    /\ Len(available_tools) = 3

\* C15: run with reset_selected_tools true sets selected_tools to
\* available_tools before the first schema is built, so that schema admits the
\* input of every available tool whatever was selected before; with
\* reset_selected_tools false the first schema is built from the selection as
\* it was.
C15_ResetAtRunStart ==
    Idle =>
        \A q \in Queries, given \in BOOLEAN, n \in MaxChainArgs :
            /\ ENABLED StartRun(q, TRUE, given, n)
            /\ ~ENABLED (/\ StartRun(q, TRUE, given, n)
                         /\ ~(/\ pc' = "iterating"
                              /\ llm_calls' = 0
                              /\ available_tools' = available_tools
                              /\ selected_tools' = available_tools
                              /\ MakeChainToolOutputSchema(
                                     selected_tools', available_tool_names'
                                 ).tool_input_type
                                     = {available_tools[i].input_schema :
                                            i \in DOMAIN available_tools}
                                           \cup {NoneVal}))
            /\ ENABLED StartRun(q, FALSE, given, n)
            /\ ~ENABLED (/\ StartRun(q, FALSE, given, n)
                         /\ ~(/\ pc' = "iterating"
                              /\ llm_calls' = 0
                              /\ available_tools' = available_tools
                              /\ selected_tools' = selected_tools))

\* C15 witness: an earlier chain has left one of three available tools
\* selected, and the run that starts here with reset_selected_tools true
\* selects all three again
C15_Witness ==
    /\ Idle
    /\ last_op.op = "run"
    /\ Len(selected_tools) = 1
    /\ Len(available_tools) = 3
    /\ ENABLED (/\ StartRun("q0", TRUE, FALSE, 0)
                /\ Len(selected_tools') = 3
                /\ selected_tools' = available_tools)

\* a chain output that breaks one of the two rules of a chain output
BreaksChainRule(out) ==
    \/ ~(out.remainder # "" <=> out.next_tool # NoneVal)
    \/ /\ IsInstance(out.called_tool_input, RespondTool.input_schema)
       /\ (out.remainder # "" \/ out.next_tool # NoneVal)

\* C18: when the reasoning engine's result breaks a rule of the chain output,
\* the pass fails with the validation error, executes no tool and leaves the
\* query and selected_tools as they were at its start; run then makes no
\* other step and the caller gets the validation error.
C18_ValidationFailureSurfaces ==
    /\ (pc = "iterating" /\ LoopContinues(chain_i, max_chain)) =>
           \A out \in ChainOutputs :
               BreaksChainRule(out) =>
                   /\ ENABLED CallReasoningEngine(out)
                   /\ ~ENABLED (/\ CallReasoningEngine(out)
                                /\ ~(/\ pc' = "failed"
                                     /\ error'.type = "ValidationError"
                                     /\ llm_calls' = llm_calls + 1
                                     /\ tool_execs' = tool_execs
                                     /\ result_text' = result_text
                                     /\ query' = query
                                     /\ selected_tools' = selected_tools))
    /\ (pc = "failed" /\ error.type = "ValidationError") =>
           /\ ~ENABLED RunStep
           /\ \A keep \in BOOLEAN :
                  /\ ENABLED RunEnds(keep)
                  /\ ~ENABLED (RunEnds(keep)
                                  /\ last_op'.raised # "ValidationError")

\* C18 witness: the second pass of a run failed on a chain output that has a
\* remainder and no next tool, after the first pass had executed a tool
C18_Witness ==
    /\ pc = "failed"
    /\ error.type = "ValidationError"
    /\ error.message = RuleRemainderNoNext
    /\ chain_i = 1
    /\ llm_calls = 2
    /\ tool_execs = 1
    /\ query = "r1"

\* C19: get_tool raises the invalid-selector error when neither selector is
\* given and when both are given.
C19_ExactlyOneSelector ==
    Idle =>
        \A tool_name \in GetToolNameArgs, tool_schema \in GetToolSchemaArgs :
            ((tool_name = NoneVal) <=> (tool_schema = NoSchema)) =>
                ~ENABLED (/\ GetTool(tool_name, tool_schema)
                          /\ last_op'.raised # "InvalidSelector")

\* C20: get_tool, given one selector, searches the whole catalog: a name, an
\* input schema class or an input of a catalog tool gives that tool, in the
\* current mode or not, and any other name or schema raises the
\* tool-not-found error with that name or the schema's class name.
C20_ResolvesAgainstCatalog ==
    Idle =>
        /\ \A tool_name \in GetToolNameArgs \ {NoneVal, ""} :
               /\ ENABLED GetTool(tool_name, NoSchema)
               /\ ~ENABLED (/\ GetTool(tool_name, NoSchema)
                            /\ ~(IF tool_name \in Range(TOOL_NAMES)
                                 THEN /\ last_op'.raised = NoneVal
                                      /\ last_op'.value = tool_name
                                 ELSE /\ last_op'.raised = "ToolNotFound"
                                      /\ last_op'.name = tool_name))
        /\ \A tool_schema \in GetToolSchemaArgs \ {NoSchema} :
               LET class_name == IF "class" \in DOMAIN tool_schema
                                 THEN tool_schema.class
                                 ELSE tool_schema.schema
                   owners == {i \in DOMAIN TOOLS :
                                 TOOLS[i].input_schema = class_name}
               IN  /\ ENABLED GetTool(NoneVal, tool_schema)
                   /\ ~ENABLED (/\ GetTool(NoneVal, tool_schema)
                                /\ ~(IF owners # {}
                                     THEN /\ last_op'.raised = NoneVal
                                          /\ \E i \in owners :
                                                 last_op'.value = TOOLS[i].qualname
                                     ELSE /\ last_op'.raised = "ToolNotFound"
                                          /\ last_op'.name = class_name))

\* C20 witness: in the mode cooking get_tool has returned AddTasksTool, which
\* the mode does not make available
C20_Witness ==
    /\ last_op.op = "get_tool"
    /\ last_op.raised = NoneVal
    /\ last_op.value = "AddTasksTool"
    /\ mode = "cooking"
    /\ AddTasksTool \notin Range(available_tools)

\* s is the beginning of t
IsPrefix(s, t) == Len(s) <= Len(t) /\ SubSeq(t, 1, Len(s)) = s

\* C17: when the tool called in a pass raises, the pass ends failed with the
\* tool's error, one execution was started and none follows, no
\* reasoning-engine call follows, the writes of the earlier passes stand, and
\* the caller gets the tool's error.
C17_ToolFailureAborts ==
    /\ (/\ pc = "called"
        /\ response.called_tool_input # NoSchema
        /\ ToolMayRaise(get_tool(NoneVal, response.called_tool_input))) =>
           /\ ENABLED ExecuteTool(FALSE)
           /\ ~ENABLED (/\ ExecuteTool(FALSE)
                        /\ ~(/\ pc' = "failed"
                             /\ error' =
                                    [type |-> "ToolError",
                                     message |->
                                         get_tool(NoneVal,
                                                  response.called_tool_input
                                         ).qualname]
                             /\ tool_execs' = tool_execs + 1
                             /\ llm_calls' = llm_calls
                             /\ result_text' = result_text
                             /\ IsPrefix(run_effects, run_effects')))
    /\ (pc = "failed" /\ error.type = "ToolError") =>
           /\ tool_execs <= chain_i + 1
           /\ llm_calls = chain_i + 1
           /\ ~ENABLED RunStep
           /\ \A keep \in BOOLEAN :
                  /\ ENABLED RunEnds(keep)
                  /\ ~ENABLED (RunEnds(keep) /\ last_op'.raised # "ToolError")

\* C17 witness: the tool of the second pass failed after the first pass had
\* added a task, and the task is still written
C17_Witness ==
    /\ pc = "failed"
    /\ error.type = "ToolError"
    /\ chain_i = 1
    /\ tool_execs = 2
    /\ run_effects = <<[store |-> "obsidian", written |-> <<"Text Georgie back">>]>>

\* the turns of this run's completed passes are the last turns of h: a query
\* then the chain output of pass j, for j = 1..k in this order
EndsWithPasses(h, k) ==
    LET turns == Turns(h)
        base == Len(turns) - 2 * k
    IN  /\ base >= 0
        /\ \A j \in 1..k :
               /\ turns[base + 2 * j - 1].role = "user"
               /\ turns[base + 2 * j] = AssistantTurn(j)

\* C16: the conversation history is append-only and carried forward.  A run
\* starts from the history the previous run on the same AssistantAgent left
\* and leaves it as it was until its first pass; each pass is invoked with
\* the history of all the passes before it and, when the engine answers,
\* adds exactly its query and its chain output at the end (a call that
\* raises adds at most its query); executing a tool, going on to the next
\* pass, failing and returning leave the history alone.  So before pass
\* k + 1 of a run the history ends with the k pairs of its passes in order
\* and is the one the next pass is invoked with.
C16_HistoryCarriedForward ==
    /\ Idle =>
           \A q \in Queries, reset \in BOOLEAN, given \in BOOLEAN,
              n \in MaxChainArgs :
               /\ ENABLED StartRun(q, reset, given, n)
               /\ ~ENABLED (StartRun(q, reset, given, n)
                               /\ ~(/\ history' = agent_history
                                    /\ agent_history' = agent_history))
    /\ pc = "iterating" =>
           /\ history = agent_history
           /\ EndsWithPasses(agent_history, chain_i)
    /\ (pc = "iterating" /\ LoopContinues(chain_i, max_chain)) =>
           \A out \in ChainOutputs :
               /\ ENABLED CallReasoningEngine(out)
               /\ ~ENABLED
                      (/\ CallReasoningEngine(out)
                       /\ ~(IF pc' = "called"
                            THEN Turns(agent_history') =
                                     Turns(history)
                                         \o <<UserTurn(query),
                                              AssistantTurn(chain_i + 1)>>
                            ELSE Turns(agent_history') \in
                                     {Turns(history),
                                      Append(Turns(history), UserTurn(query))}))
    /\ ~ENABLED ((\E ok \in BOOLEAN : ExecuteTool(ok))
                    /\ agent_history' # agent_history)
    /\ ~ENABLED (Advance /\ agent_history' # agent_history)
    /\ ~ENABLED (MaxChainExceeded /\ agent_history' # agent_history)
    /\ ~ENABLED (RunEnds(TRUE) /\ agent_history' # agent_history)

\* the second run on an AssistantAgent has completed two passes: the history
\* holds the pair the first run left, then the pairs of these two passes
C16_Witness ==
    /\ pc = "iterating"
    /\ chain_i = 2
    /\ history = agent_history
    /\ Turns(agent_history) =
           <<UserTurn("q0"), AssistantTurn(1),
             UserTurn("q0"), AssistantTurn(1),
             UserTurn("r1"), AssistantTurn(2)>>

\* get_tool(tool_name, tool_schema) returns the tool t and nothing else
GetToolGives(tool_name, tool_schema, t) ==
    /\ ENABLED GetTool(tool_name, tool_schema)
    /\ ~ENABLED (/\ GetTool(tool_name, tool_schema)
                 /\ ~(/\ last_op'.raised = NoneVal
                      /\ last_op'.value = t.qualname))

\* C21: for every tool t of the catalog, get_tool by t's name, by t's input
\* schema class and by any instance of t's input schema all return t, in
\* every mode.
C21_GetToolRoundTrip ==
    Idle =>
        \A i \in DOMAIN TOOLS :
            /\ GetToolGives(TOOLS[i].qualname, NoSchema, TOOLS[i])
            /\ GetToolGives(NoneVal, SchemaClass(TOOLS[i].input_schema), TOOLS[i])
            /\ \A params \in ToolInputs :
                   IsInstance(params, TOOLS[i].input_schema) =>
                       GetToolGives(NoneVal, params, TOOLS[i])

\* C21 witness: get_tool, given an instance of the input schema of
\* ReadRecipeTool, has returned ReadRecipeTool in a mode without it
C21_Witness ==
    /\ Idle
    /\ last_op.op = "get_tool"
    /\ last_op.value = "ReadRecipeTool"
    /\ mode = "shopping"
    /\ \E params \in ReadRecipeInputs :
           ENABLED (GetTool(NoneVal, params) /\ last_op' = last_op)

\* C22: reset_selected_tools makes selected_tools the current available_tools
\* and changes neither mode nor available_tools; called again right after, it
\* changes nothing, so twice in a row gives what once gives.
C22_ResetIsIdempotent ==
    Idle =>
        /\ ENABLED ResetSelectedTools
        /\ ~ENABLED (/\ ResetSelectedTools
                     /\ ~(/\ selected_tools' = available_tools
                          /\ mode' = mode
                          /\ available_tools' = available_tools))
        /\ Toolset_reset_selected_tools(Toolset_reset_selected_tools(Toolset))
               = Toolset_reset_selected_tools(Toolset)
        /\ last_op.op = "reset_selected_tools" =>
               ~ENABLED (ResetSelectedTools /\ ~UNCHANGED toolset_vars)

\* C22 witness: reset_selected_tools was called in the mode cooking and has
\* selected its two tools; a second call changes nothing
C22_Witness ==
    /\ Idle
    /\ last_op.op = "reset_selected_tools"
    /\ mode = "cooking"
    /\ selected_tool_names = <<"AddShoppingItemsTool", "ReadRecipeTool">>
    /\ ENABLED (ResetSelectedTools /\ UNCHANGED vars)

\* the lists of tools a caller can assign, repeated tools included
ToolLists == SeqsUpTo(Range(TOOLS) \cup {InvalidTool}, MaxSelLen)

\* C23: assigning selected_tools a list whose tools are all available raises
\* nothing and makes selected_tools that very list, so selected_tool_names are
\* the names of the given tools in the given order; mode and available_tools
\* stay as they were.
C23_SetterReplacesSelection ==
    Idle =>
        \A tools \in ToolLists :
            (\A i \in DOMAIN tools : tools[i] \in Range(available_tools)) =>
                /\ ENABLED SetSelectedTools(tools)
                /\ ~ENABLED
                       (/\ SetSelectedTools(tools)
                        /\ ~(/\ last_op'.raised = NoneVal
                             /\ selected_tools' = tools
                             /\ selected_tool_names' =
                                    [i \in DOMAIN tools |-> tools[i].qualname]
                             /\ mode' = mode
                             /\ available_tools' = available_tools))

\* C23 witness: in the mode general the selection was set to RespondTool then
\* AddTasksTool, the reverse of their order in available_tools
C23_Witness ==
    /\ Idle
    /\ last_op.op = "selected_tools_setter"
    /\ last_op.raised = NoneVal
    /\ mode = "general"
    /\ selected_tools = <<RespondTool, AddTasksTool>>
    /\ ENABLED (SetSelectedTools(<<RespondTool, AddTasksTool>>) /\ UNCHANGED vars)

\* C24: match_mode(text) raises nothing; when text matches a mode name,
\* exactly without regard to case or else by fuzzy score, it sets the mode
\* (and so the available tools) to that mode; when nothing matches it leaves
\* mode, available_tools and selected_tools as they were.
C24_MatchModeSetsMode ==
    Idle =>
        \A text \in MatchTexts :
            ~ENABLED
                (/\ MatchMode(text)
                 /\ ~(LET m == _match_phrase(text, DOMAIN AVAILABLE_MODES)
                      IN  /\ last_op'.raised = NoneVal
                          /\ IF m # NoneVal
                             THEN /\ mode' = m
                                  /\ available_tools' =
                                         FilterAvailable(TOOLS, AVAILABLE_MODES[m])
                             ELSE UNCHANGED <<mode, available_tools,
                                              selected_tools>>))

\* the stored kwargs whose names tool.__init__ declares, config aside
Declared(tool) == {kv \in kwargs : kv[1] \in parameters(tool) \ {"self", "config"}}

\* C25: initialize_tool passes to the constructor of the tool exactly the
\* stored kwargs whose names are parameters of that constructor other than
\* config, and no other stored kwarg; a Toolset that holds the collaborators
\* of several tools (obsidian and mealie) instantiates every tool of the
\* catalog.
C25_InitializeToolPassesDeclaredKwargs ==
    Idle =>
        \A i \in DOMAIN TOOLS :
            /\ ENABLED InitializeTool(TOOLS[i].qualname, NoSchema)
            /\ ~ENABLED (/\ InitializeTool(TOOLS[i].qualname, NoSchema)
                         /\ ~(/\ last_op'.raised = NoneVal =>
                                     /\ last_op'.value.tool = TOOLS[i]
                                     /\ last_op'.value.passed = Declared(TOOLS[i])
                              /\ {"obsidian", "mealie"} \subseteq Keys(kwargs) =>
                                     last_op'.raised = NoneVal))

\* a Toolset holding obsidian, mealie and a config has just instantiated
\* AddTasksTool with obsidian alone
C25_Witness ==
    /\ Idle
    /\ Keys(kwargs) = {"obsidian", "mealie", "config"}
    /\ last_op.op = "initialize_tool"
    /\ last_op.raised = NoneVal
    /\ last_op.value.tool = AddTasksTool
    /\ last_op.value.passed = {<<"obsidian", Client>>}
    /\ ENABLED (InitializeTool("AddTasksTool", NoSchema) /\ UNCHANGED vars)

\* the name of the collaborator the constructor of the tool takes
CollaboratorOf(tool) == parameters(tool) \ {"self", "config"}

\* C26: when the Toolset was constructed without the collaborator of a tool
\* (obsidian for AddTasksTool, mealie for AddShoppingItemsTool and
\* ReadRecipeTool), instantiating and running that tool in a run does not
\* fail: the tool is executed and the pass goes on with its output.
C26_OmittedCollaboratorDegrades ==
    \A i \in DOMAIN TOOLS :
        (/\ pc = "called"
         /\ IsInstance(response.called_tool_input, TOOLS[i].input_schema)
         /\ CollaboratorOf(TOOLS[i]) # {}
         /\ CollaboratorOf(TOOLS[i]) \cap Keys(kwargs) = {})
            => /\ ENABLED ExecuteTool(TRUE)
               /\ \A ok \in BOOLEAN :
                      ~ENABLED (/\ ExecuteTool(ok)
                                /\ ~(/\ pc' = "executed"
                                     /\ error' = NoError
                                     /\ hasattr(tool_response', "result")))

C28_OneCallThenOneToolPerPass ==
    /\ pc = "iterating" =>
           /\ llm_calls = chain_i
           /\ tool_execs <= chain_i
           /\ \A ok \in BOOLEAN : ~ENABLED ExecuteTool(ok)
    /\ pc = "called" =>
           /\ llm_calls = chain_i + 1
           /\ tool_execs <= chain_i
           /\ \A out \in ChainOutputs : ~ENABLED CallReasoningEngine(out)
           /\ \A ok \in BOOLEAN :
                  ~ENABLED (ExecuteTool(ok) /\ tool_execs' > tool_execs + 1)
    /\ pc = "executed" =>
           /\ llm_calls = chain_i + 1
           /\ tool_execs <= chain_i + 1
           /\ \A out \in ChainOutputs : ~ENABLED CallReasoningEngine(out)
           /\ \A ok \in BOOLEAN : ~ENABLED ExecuteTool(ok)
           /\ ENABLED Advance
           /\ ~ENABLED (Advance /\ ~(\/ pc' \in {"done", "failed"}
                                     \/ /\ pc' = "iterating"
                                        /\ chain_i' = chain_i + 1))

\* the tool of the second pass has returned: two calls and two tools so far
C28_Witness ==
    /\ pc = "executed"
    /\ chain_i = 1
    /\ llm_calls = 2
    /\ tool_execs = 2

\* C29: RespondTool is the last step of a chain: once RespondTool has been
\* executed in a pass, no reasoning-engine call and no tool execution can
\* start, the pass returns the run's value without another call or tool, and
\* a run that has returned makes none either.
C29_RespondToolEndsTheRun ==
    /\ (/\ pc = AfterToolRun
        /\ IsInstance(response.called_tool_input, RespondTool.input_schema)) =>
           /\ \A out \in ChainOutputs : ~ENABLED CallReasoningEngine(out)
           /\ \A ok \in BOOLEAN : ~ENABLED ExecuteTool(ok)
           /\ ENABLED Advance
           /\ ~ENABLED (/\ Advance
                        /\ ~(/\ pc' = "done"
                             /\ returned' = <<tool_response.response>>
                             /\ llm_calls' = llm_calls
                             /\ tool_execs' = tool_execs))
    /\ pc = "done" =>
           /\ \A out \in ChainOutputs : ~ENABLED CallReasoningEngine(out)
           /\ \A ok \in BOOLEAN : ~ENABLED ExecuteTool(ok)
           /\ ~ENABLED Advance

\* a run has returned RespondTool's response from its second pass
C29_Witness ==
    /\ pc = "done"
    /\ chain_i = 1
    /\ IsInstance(response.called_tool_input, RespondTool.input_schema)
    /\ tool_response = RespondTool_run(response.called_tool_input)
    /\ returned = <<"Hello.">>
    /\ llm_calls = 2

\* the values of the fields of out are of the types the schema built for the
\* Toolset gives them, so that the model validator runs
FieldsAccepted(out) ==
    LET schema == MakeChainToolOutputSchema(selected_tools, available_tool_names)
    IN  /\ out.called_tool_input.schema \in schema.tool_input_type
        /\ out.next_tool \in schema.next_tool_type

\* the message the rules, checked in their order, give for out
FirstRuleViolated(out) ==
    LET respond == IsInstance(out.called_tool_input, RespondTool.input_schema)
    IN  CASE out.remainder # "" /\ out.next_tool = NoneVal -> RuleRemainderNoNext
          [] out.remainder = "" /\ out.next_tool # NoneVal -> RuleNextNoRemainder
          [] respond /\ out.remainder # "" /\ out.next_tool # NoneVal ->
                 RuleRespondLast
          [] OTHER -> NoneVal

\* C30: a chain output the validator rejects raises one validation failure
\* whose message is that of the rule violated, the rules being checked in a
\* fixed order: the RespondTool message exactly for a RespondTool input with
\* a non-empty remainder and a next_tool; the remainder-without-next-tool
\* message for a non-empty remainder and next_tool None, a RespondTool input
\* included; the next-tool-without-remainder message for an empty remainder
\* and a next_tool, a RespondTool input included.
C30_OneMessagePerViolatedRule ==
    Idle =>
        \A out \in ChainOutputs :
            FieldsAccepted(out) =>
                /\ ENABLED ConstructChainOutput(out)
                /\ ~ENABLED (/\ ConstructChainOutput(out)
                             /\ last_op'.raised # FirstRuleViolated(out))

\* a RespondTool input with a remainder and no next tool has just been
\* rejected with the remainder-without-next-tool message
C30_Witness ==
    /\ Idle
    /\ last_op.op = "ChainToolOutputSchema"
    /\ last_op.raised = RuleRemainderNoNext
    /\ LET out == [called_tool_input |->
                       [schema |-> "RespondInputSchema", response |-> "Hello."],
                   remainder |-> "r1", next_tool |-> NoneVal]
       IN  /\ FieldsAccepted(out)
           /\ ENABLED (ConstructChainOutput(out) /\ UNCHANGED vars)

\* C31: a run that ends with a pass whose tool output has no response
\* returns the results of all the tools executed in this run, in the order
\* of execution, joined by newlines, and no result of an earlier run on the
\* same AssistantAgent.  A run starts with no result captured; a pass adds
\* the result of its tool, if it executed one, after those captured before
\* and nothing else; every other step leaves the captured results alone; so
\* there is one result per tool executed, and the run returns their join.
C31_ReturnsThisRunsResultsInOrder ==
    /\ Idle =>
           \A q \in Queries, reset \in BOOLEAN, n \in MaxChainArgs :
               ~ENABLED (StartRun(q, reset, TRUE, n) /\ result_text' # <<>>)
    /\ pc \in {"iterating", "called"} => Len(result_text) = tool_execs
    /\ ~ENABLED (/\ \/ \E out \in ChainOutputs : CallReasoningEngine(out)
                    \/ \E ok \in BOOLEAN : ExecuteTool(ok)
                    \/ MaxChainExceeded
                 /\ result_text' # result_text)
    /\ pc = "called" =>
           ~ENABLED (Advance /\ result_text' # result_text)
    /\ (pc = AfterToolRun /\ hasattr(tool_response, "result")) =>
           /\ Len(result_text) + 1 = tool_execs
           /\ ENABLED Advance
           /\ ~ENABLED (/\ Advance
                        /\ result_text' # result_text \o <<tool_response.result>>)
    /\ (/\ pc = "done"
        /\ ~hasattr(tool_response, "response")
        /\ tool_execs > 0) =>
           /\ Len(result_text) = tool_execs
           /\ returned = <<Join(result_text, "\n")>>

\* the second run on an AssistantAgent has returned the result of its
\* shopping-item call followed by that of its task call
C31_Witness ==
    /\ pc = "done"
    /\ tool_execs = 2
    /\ Len(Turns(agent_history)) > 4
    /\ returned = <<"Added 1 item: onions\nAdded 1 task: Text Georgie back">>

\* C32: every tool run executes is, when it is executed, one of the
\* available tools of the Toolset, the tools of its current mode, whatever
\* mode changes and runs came before, runs with reset_selected_tools=False
\* after a mode change included.
C32_ExecutedToolIsAvailable ==
    (pc = "called" /\ response.called_tool_input # NoSchema) =>
        \A ok \in BOOLEAN :
            ~ENABLED (/\ ExecuteTool(ok)
                      /\ tool_execs' = tool_execs + 1
                      /\ get_tool(NoneVal, response.called_tool_input)
                             \notin Range(available_tools))

\* C33: after a chain output the schema of the pass has accepted, the steps
\* that follow cannot fail on resolution or selection: resolving
\* called_tool_input by its schema does not raise tool-not-found, and
\* narrowing selected_tools to the tool next_tool names raises neither
\* tool-not-found nor tool-not-available.
C33_AcceptedOutputResolves ==
    /\ (pc = "called" /\ response.called_tool_input # NoSchema) =>
           /\ ~hasattr(get_tool(NoneVal, response.called_tool_input), "raised")
           /\ \A ok \in BOOLEAN :
                  ~ENABLED (ExecuteTool(ok) /\ error'.type = "ValueError")
    /\ (\/ pc = AfterToolRun
        \/ pc = "called" /\ response.called_tool_input = NoSchema) =>
           /\ ENABLED Advance
           /\ ~ENABLED (Advance /\ pc' = "failed")
           /\ response.next_tool # NoneVal =>
                  /\ SelectNextTool(Toolset, response.next_tool).raised = NoneVal
                  /\ ~ENABLED (Advance /\ selected_tool_names' # <<response.next_tool>>)

\* a pass has executed a tool that the mode does not make available and has
\* narrowed the selection to the next tool
C33_Witness ==
    /\ pc = "iterating"
    /\ chain_i = 1
    /\ tool_execs = 1
    /\ selected_tool_names = <<response.next_tool>>
    /\ get_tool(NoneVal, response.called_tool_input) \notin Range(available_tools)

\* C34: run never changes the mode or the available tools of the Toolset:
\* neither its start (with or without the reset of the selection), nor any
\* step of a pass, nor its end, whether it returns or fails by max-chain,
\* validation or tool failure; only selected_tools may differ afterwards.
C34_RunKeepsModeAndAvailableTools ==
    /\ Idle =>
           \A q \in Queries, reset \in BOOLEAN, n \in MaxChainArgs :
               /\ ENABLED StartRun(q, reset, TRUE, n)
               /\ ~ENABLED (/\ StartRun(q, reset, TRUE, n)
                            /\ <<mode, available_tools>>' # <<mode, available_tools>>)
    /\ ~ENABLED (/\ \/ RunStep
                    \/ \E keep \in BOOLEAN : RunEnds(keep)
                 /\ <<mode, available_tools>>' # <<mode, available_tools>>)
    /\ available_tools = FilterAvailable(TOOLS, AVAILABLE_MODES[mode])

\* a run has failed in the tool of its second pass, after narrowing the
\* selection, in a mode of three tools
C34_Witness ==
    /\ pc = "failed"
    /\ error.type = "ToolError"
    /\ chain_i = 1
    /\ Len(selected_tools) = 1
    /\ mode = "general"
    /\ Len(available_tools) = 3

\* C35: run does not restore the selection when it finishes.  From the
\* second pass on the selection is the single tool the chain output of the
\* pass before named as next_tool; the engine call, the tool, a return, a
\* failure and the end of the run leave it so, and afterwards it stays so
\* under a mode change and under the start of a run with
\* reset_selected_tools=False.
C35_SelectionOutlivesTheRun ==
    /\ (pc = "iterating" /\ chain_i >= 1) =>
           selected_tools = <<get_tool(response.next_tool, NoSchema)>>
    /\ (pc = "failed" /\ chain_i >= 1
            /\ error.type \in {"RuntimeError", "ValidationError"}) =>
           selected_tools = <<get_tool(response.next_tool, NoSchema)>>
    /\ (pc # "idle" /\ chain_i >= 1) =>
           /\ Len(selected_tools) = 1
           /\ ~ENABLED (/\ \/ \E out \in ChainOutputs : CallReasoningEngine(out)
                           \/ \E ok \in BOOLEAN : ExecuteTool(ok)
                           \/ MaxChainExceeded
                           \/ Advance /\ pc' \in {"done", "failed"}
                        /\ selected_tools' # selected_tools)
    /\ pc \in {"done", "failed"} =>
           \A keep \in BOOLEAN :
               /\ ENABLED RunEnds(keep)
               /\ ~ENABLED (RunEnds(keep) /\ selected_tools' # selected_tools)
    /\ Idle =>
           /\ \A m \in ModeArgs :
                  ~ENABLED (SetMode(m) /\ selected_tools' # selected_tools)
           /\ \A q \in Queries, n \in MaxChainArgs :
                  ~ENABLED (/\ StartRun(q, FALSE, TRUE, n)
                            /\ selected_tools' # selected_tools)

\* a run started on the three tools of mode general has returned from its
\* second pass: the selection is the one tool its first pass named
C35_Witness ==
    /\ pc = "done"
    /\ chain_i = 1
    /\ mode = "general"
    /\ selected_tool_names = <<"AddTasksTool">>
    /\ IsInstance(response.called_tool_input, AddTasksTool.input_schema)

\* what a run with max_chain <= 0 has not done: no engine call, no tool, no
\* pass, no write to an external store
NothingDone ==
    /\ chain_i = 0
    /\ llm_calls = 0
    /\ tool_execs = 0
    /\ run_effects = <<>>
    /\ result_text = <<>>

\* C36: with max_chain <= 0 run fails with the max-chain-exceeded error
\* without a reasoning-engine call or a tool execution; the error names the
\* query as the caller passed it; the only change of state is the reset of
\* selected_tools when reset_selected_tools is true: mode, available tools
\* and the history of the AssistantAgent's agent are as before the run.
C36_NonPositiveMaxChainFailsAtOnce ==
    /\ Idle =>
           \A q \in Queries, reset \in BOOLEAN, n \in MaxChainArgs :
               n <= 0 =>
                   /\ ENABLED StartRun(q, reset, TRUE, n)
                   /\ ~ENABLED
                          (/\ StartRun(q, reset, TRUE, n)
                           /\ ~(/\ query' = q
                                /\ max_chain' = n
                                /\ <<mode, available_tools, agent_history>>'
                                       = <<mode, available_tools, agent_history>>
                                /\ selected_tools' =
                                       IF reset THEN available_tools
                                       ELSE selected_tools))
    /\ (pc = "iterating" /\ max_chain <= 0) =>
           /\ NothingDone
           /\ \A out \in ChainOutputs : ~ENABLED CallReasoningEngine(out)
           /\ \A ok \in BOOLEAN : ~ENABLED ExecuteTool(ok)
           /\ ~ENABLED Advance
           /\ ENABLED MaxChainExceeded
           /\ ~ENABLED (/\ MaxChainExceeded
                        /\ ~(/\ pc' = "failed"
                             /\ error' = [type |-> "RuntimeError",
                                          max_chain |-> max_chain,
                                          mode |-> mode, query |-> query]
                             /\ UNCHANGED <<toolset_vars, agent_history>>))
    /\ (pc = "failed" /\ max_chain <= 0) =>
           /\ NothingDone
           /\ error.type = "RuntimeError"
           /\ error.query = query
           /\ ENABLED RunEnds(TRUE)
           /\ ~ENABLED (/\ RunEnds(TRUE)
                        /\ ~(/\ last_op'.raised = "RuntimeError"
                             /\ UNCHANGED <<toolset_vars, agent_history>>))
    /\ pc = "done" => max_chain > 0

\* a run with max_chain 0 on an AssistantAgent that has run before has
\* failed: nothing was called and the history is the one the earlier run left
C36_Witness ==
    /\ pc = "failed"
    /\ max_chain = 0
    /\ error = MaxChainError(0, Toolset, "q0")
    /\ llm_calls = 0
    /\ agent_history # NoHistory

\* the chain output that calls no tool and ends the chain
NothingToDo ==
    [called_tool_input |-> NoSchema, remainder |-> "", next_tool |-> NoneVal]

\* a run is on a Toolset whose mode lists no tool and whose selection is
\* empty, as the reset at the start of the run leaves it
InEmptyMode ==
    /\ pc # "idle"
    /\ AVAILABLE_MODES[mode] = <<>>
    /\ selected_tools = <<>>

\* what holds of a run in a mode without tools apart from the way it fails:
\* the schema accepts NothingToDo alone, no tool is executed, and a run that
\* returns returns "Done." after exactly one pass
EmptyModeRun ==
    /\ available_tools = <<>>
    /\ tool_execs = 0
    /\ \A ok \in BOOLEAN : ~ENABLED ExecuteTool(ok)
    /\ (pc = "iterating" /\ LoopContinues(chain_i, max_chain)) =>
           /\ chain_i = 0
           /\ \A out \in ChainOutputs :
                  /\ ENABLED CallReasoningEngine(out)
                  /\ ~ENABLED (/\ CallReasoningEngine(out)
                               /\ ~(IF out = NothingToDo
                                    THEN pc' = "called"
                                    ELSE /\ pc' = "failed"
                                         /\ error'.type = "ValidationError"))
    /\ pc = "called" =>
           /\ response = NothingToDo
           /\ ENABLED Advance
           /\ ~ENABLED (Advance /\ ~(pc' = "done" /\ returned' = <<"Done.">>))
    /\ pc = "done" =>
           /\ returned = <<"Done.">>
           /\ llm_calls = 1
           /\ chain_i = 0

\* C37: in a mode whose tool list is empty the schema accepts only the chain
\* output with called_tool_input None, remainder "" and next_tool None, so a
\* run in such a mode never executes a tool and either returns "Done." after
\* exactly one pass or aborts with a validation failure.
C37_EmptyModeRunIsDoneOrInvalid ==
    InEmptyMode =>
        /\ EmptyModeRun
        /\ pc = "failed" => error.type = "ValidationError"

\* C37, amended: as above for a run with max_chain >= 1; a run with
\* max_chain <= 0 makes no pass and aborts with the max-chain-exceeded error.
C37_EmptyModeRunIsDoneInvalidOrExceeded ==
    InEmptyMode =>
        /\ EmptyModeRun
        /\ pc = "failed" =>
               IF max_chain >= 1
               THEN error.type = "ValidationError" /\ llm_calls = 1
               ELSE error.type = "RuntimeError" /\ llm_calls = 0

\* a run in mode review has returned "Done." after its one pass
C37_Witness ==
    /\ pc = "done"
    /\ mode = "review"
    /\ selected_tools = <<>>
    /\ returned = <<"Done.">>
    /\ llm_calls = 1

====
